---- MODULE Spec2Model ----
(***************************************************************************)
(* A model of scenic's pruning engine (src/core/pruning.py).               *)
(*                                                                         *)
(* Geometry is one-dimensional: the world is the row of unit cells         *)
(* 0..Width-1, a region is the set of cells it covers, its size is the     *)
(* number of cells, and lengths (radii, offsets, distances) are whole      *)
(* numbers of cells.  Angles are whole degrees.  A region that covers a    *)
(* cell only partly is represented by the whole cell.                      *)
(***************************************************************************)
EXTENDS Integers, Sequences, FiniteSets, TLC

VARIABLES scenario, run, cyc, pct, buf, rh

vars == <<scenario, run, cyc, pct, buf, rh>>

-----------------------------------------------------------------------------
(* Bounds of the model *)

Width == 5

MaxRadius == 2

-----------------------------------------------------------------------------
(* Python values *)

\* None, as the absent bound of a support interval
None == -1

\* float("inf")
Inf == 1000

\* PRUNING_PITCH = 0.01, kept as its inverse
PruningPitchInv == 100

\* math.tau in degrees
Tau == 360

Cells == 0 .. (Width - 1)

Min(a, b) == IF a <= b THEN a ELSE b

Max(a, b) == IF a >= b THEN a ELSE b

SetMin(S) == CHOOSE x \in S : \A y \in S : x <= y

SetMax(S) == CHOOSE x \in S : \A y \in S : x >= y

\* math.floor(a / b) and math.ceil(a / b) for a >= 0, b > 0
FloorDiv(a, b) == a \div b

CeilDiv(a, b) == (a + b - 1) \div b

-----------------------------------------------------------------------------
(* Regions (scenic.core.regions), as far as the pruner uses them *)

Region(id, kind, cells, random) ==
    [id |-> id, kind |-> kind, cells |-> cells, random |-> random,
     size |-> Cardinality(cells)]

\* the absent region: matchInRegion's None, a container of None
NoRegion == Region(0, "NoneType", {}, FALSE)

\* regions.EmptyRegion ("nowhere")
Nowhere == Region(0, "EmptyRegion", {}, FALSE)

\* needsSampling(region)
needsSampling(reg) == reg.random

\* Region.dimensionality: the falsy values None and 0 are both 0 here
Dimensionality(reg) ==
    CASE reg.kind = "PolygonalRegion" -> 2
      [] reg.kind = "MeshSurfaceRegion" -> 2
      [] reg.kind = "MeshVolumeRegion" -> 3
      [] reg.kind = "VoxelRegion" -> 3
      [] OTHER -> 0

\* Region.size
Size(reg) == reg.size

\* hasattr(region, "buffer")
HasBuffer(reg) == reg.kind = "PolygonalRegion"

\* the cells within distance d of the set S
Dilate(S, d) == {c \in Cells : \E s \in S : c - s <= d /\ s - c <= d}

\* the cells of S whose whole d-neighbourhood lies in S
Erode(S, d) == {c \in S : \A k \in (c - d) .. (c + d) : k \in S}

\* region.buffer(d): d < 0 erodes, d > 0 dilates; the result is a new region
Buffer(reg, d) ==
    Region(0, reg.kind, IF d < 0 THEN Erode(reg.cells, 0 - d) ELSE Dilate(reg.cells, d), FALSE)

\* the kind of a.intersect(b) when it is not empty
IntersectKind(a, b) ==
    CASE a.kind = b.kind -> a.kind
      [] {a.kind, b.kind} = {"MeshVolumeRegion", "MeshSurfaceRegion"} -> "MeshSurfaceRegion"
      [] {a.kind, b.kind} = {"MeshVolumeRegion", "VoxelRegion"} -> "VoxelRegion"
      [] OTHER -> "IntersectionRegion"

\* a.intersect(b): an empty intersection is the EmptyRegion
Intersect(a, b) ==
    IF a.cells \cap b.cells = {} THEN Nowhere
    ELSE Region(0, IntersectKind(a, b), a.cells \cap b.cells, FALSE)

\* "a is b" for regions: derived regions (id 0) are fresh objects
Is(a, b) == a.id = b.id /\ a.id # 0

\* max(region.mesh.extents): the length of the bounding interval
Extent(reg) == IF reg.cells = {} THEN 0 ELSE SetMax(reg.cells) - SetMin(reg.cells) + 1

\* voxelRegion.dilation(iterations) of region.voxelized(pitch), pitch being
\* PRUNING_PITCH * extent: each pass moves the boundary by one pitch along the
\* axis; growth covers every cell it touches, erosion keeps every cell it
\* leaves partly covered
VoxelDilation(reg, iterations) ==
    IF iterations >= 0
    THEN Region(0, "VoxelRegion",
                Dilate(reg.cells, CeilDiv(iterations * Extent(reg), PruningPitchInv)), FALSE)
    ELSE Region(0, "VoxelRegion",
                Erode(reg.cells, FloorDiv((0 - iterations) * Extent(reg), PruningPitchInv)), FALSE)

-----------------------------------------------------------------------------
(* Position expressions *)

\* a vector offset with the upper ends of supportInterval(offset_2d.norm())
\* and supportInterval(offset.norm())
Offset(maxXY, maxXYZ) == [present |-> TRUE, maxXY |-> maxXY, maxXYZ |-> maxXYZ]

NoOffset == [present |-> FALSE, maxXY |-> 0, maxXYZ |-> 0]

\* regions.PointInRegionDistribution(region); region may be a Workspace
PointIn(reg, workspace) ==
    [tag |-> "PointInRegionDistribution", region |-> reg, workspace |-> workspace,
     operator |-> "", offset |-> NoOffset]

\* VectorOperatorDistribution(operator, PointInRegionDistribution(region), (offset,))
PointInPlus(reg, workspace, op, off) ==
    [tag |-> "VectorOperatorDistribution", region |-> reg, workspace |-> workspace,
     operator |-> op, offset |-> off]

\* any other position
OtherPosition ==
    [tag |-> "Other", region |-> NoRegion, workspace |-> FALSE,
     operator |-> "", offset |-> NoOffset]

\* Region.uniformPointIn(region)
uniformPointIn(reg) == PointIn(reg, FALSE)

\* newPos + offset
PlusOffset(pos, off) == PointInPlus(pos.region, pos.workspace, "__add__", off)

matchInRegion(position) ==
    IF position.tag = "PointInRegionDistribution"
    THEN [base |-> position.region, offset |-> NoOffset]
    ELSE IF position.tag = "VectorOperatorDistribution"
            /\ position.operator \in {"__add__", "__radd__"}
    THEN [base |-> position.region, offset |-> position.offset]
    ELSE [base |-> NoRegion, offset |-> NoOffset]

-----------------------------------------------------------------------------
(* Support intervals and objects *)

\* supportInterval(x) as <<low, high>>, None for an absent end
Interval(lo, hi) == <<lo, hi>>

\* a test for the EmptyRegion that never finds it
NeverEmptyRegion(reg) == FALSE

\* isinstance(region, EmptyRegion)
IsEmptyRegion(reg) == reg.kind = "EmptyRegion"

\* the result of one loop iteration of a pass: what it does (continue with
\* the next object, raise, or condition the position), base and, once it is
\* computed, the replacement region newBase; tail says that the iteration got
\* as far as percentagePruned
Outcome(act, error, newPos, tail, base, newBase) ==
    [act |-> act, error |-> error, newPos |-> newPos, tail |-> tail, base |-> base,
     newBase |-> newBase]

Continue == Outcome("continue", "", OtherPosition, FALSE, NoRegion, NoRegion)

Raise(err) == Outcome("raise", err, OtherPosition, FALSE, NoRegion, NoRegion)

ConditionTo(pos) == Outcome("conditionTo", "", pos, FALSE, NoRegion, NoRegion)

-----------------------------------------------------------------------------
(* percentagePruned and the decision taken on it *)

\* percentagePruned(base, newBase): the percentage as the fraction num / den,
\* undefined for None; newBase.size / base.size divides by zero for a base of
\* size 0
percentagePruned(base, newBase) ==
    IF Dimensionality(base) # 0 /\ Dimensionality(newBase) # 0
       /\ Dimensionality(base) = Dimensionality(newBase)
    THEN [defined |-> TRUE, zeroDivision |-> Size(base) = 0,
          num |-> Max(0, 100 * (Size(base) - Size(newBase))), den |-> Size(base)]
    ELSE [defined |-> FALSE, zeroDivision |-> FALSE, num |-> 0, den |-> 1]

\* a threshold of a thousandth of the base: percentage_pruned <= 0.1
NegligibleTenth(pp) == pp.num * 10 <= pp.den

\* percentage_pruned <= 0.001; for sizes that are whole numbers the floating
\* point comparison and this exact one agree
Negligible(pp) == pp.num * 1000 <= pp.den

-----------------------------------------------------------------------------
(* pruneContainment *)

\* the maximum distance of the object from the sampled point
maxDistanceOf(base, offset) ==
    IF offset.present
    THEN IF base.kind = "PolygonalRegion" THEN offset.maxXY ELSE offset.maxXYZ
    ELSE 0

\* the minimum radius of the object within the container's dimensions
minRadiusOf(obj, base) ==
    IF base.kind = "PolygonalRegion"
       /\ obj.pitch = Interval(0, 0) /\ obj.roll = Interval(0, 0)
    THEN obj.planarInradius[1]
    ELSE obj.inradius[1]

\* math.floor(maxErosion / math.hypot(pitch, pitch, pitch)) for the pitch
\* PRUNING_PITCH * extent: the largest k with k * extent * sqrt(3) <= 100 * maxErosion
ErosionPasses(maxErosion, extent) ==
    SetMax({k \in 0 .. (PruningPitchInv * maxErosion) :
               3 * k * k * extent * extent
                   <= PruningPitchInv * PruningPitchInv * maxErosion * maxErosion})

\* a container that is never eroded
KeepContainer(container, maxDistance, minRadius) == container

\* the container, eroded if possible and productive
ErodeContainer(container, maxDistance, minRadius) ==
    IF maxDistance # None /\ minRadius # None /\ minRadius - maxDistance > 0
    THEN LET maxErosion == minRadius - maxDistance
         IN  IF HasBuffer(container)
             THEN Buffer(container, 0 - maxErosion)
             ELSE IF container.kind = "MeshVolumeRegion"
             THEN LET iterations == ErosionPasses(maxErosion, Extent(container)) - 1
                      eroded_container == VoxelDilation(container, 0 - iterations)
                  IN  IF iterations > 0 /\ Size(eroded_container) < Size(container)
                      THEN eroded_container
                      ELSE container
             ELSE container
    ELSE container

\* an end of the iteration that conditions only on a computed percentage
ContainmentTailSkipping(base, newBase, offset) ==
    LET percentage_pruned == percentagePruned(base, newBase)
        newPos == uniformPointIn(newBase)
    IN  IF percentage_pruned.zeroDivision
        THEN Outcome("raise", "ZeroDivisionError", OtherPosition, TRUE, base, newBase)
        ELSE IF ~percentage_pruned.defined \/ Negligible(percentage_pruned)
        THEN Outcome("continue", "", OtherPosition, TRUE, base, newBase)
        ELSE Outcome("conditionTo", "",
                     IF offset.present THEN PlusOffset(newPos, offset) ELSE newPos,
                     TRUE, base, newBase)

\* the end of an iteration of pruneContainment, from percentagePruned on
ContainmentTail(base, newBase, offset) ==
    LET percentage_pruned == percentagePruned(base, newBase)
        newPos == uniformPointIn(newBase)
    IN  IF percentage_pruned.zeroDivision
        THEN Outcome("raise", "ZeroDivisionError", OtherPosition, TRUE, base, newBase)
        ELSE IF percentage_pruned.defined /\ Negligible(percentage_pruned)
        THEN Outcome("continue", "", OtherPosition, TRUE, base, newBase)
        ELSE Outcome("conditionTo", "",
                     IF offset.present THEN PlusOffset(newPos, offset) ELSE newPos,
                     TRUE, base, newBase)

\* one iteration of pruneContainment's loop, for the object obj
ContainmentStep(obj) ==
    LET m == matchInRegion(obj.position)
        base == m.base
        offset == m.offset
    IN  IF base = NoRegion \/ needsSampling(base) THEN Continue
        ELSE IF IsEmptyRegion(base) THEN Raise("InvalidScenarioError")
        ELSE IF obj.container = NoRegion \/ needsSampling(obj.container) THEN Continue
        ELSE IF IsEmptyRegion(obj.container) THEN Raise("InvalidScenarioError")
        ELSE LET container == ErodeContainer(obj.container, maxDistanceOf(base, offset),
                                             minRadiusOf(obj, base))
                 newBase == Intersect(base, container)
             IN  IF Is(base, container) THEN Continue
                 ELSE IF base.kind = "MeshVolumeRegion" /\ newBase.kind = "MeshSurfaceRegion"
                 THEN Continue
                 ELSE IF IsEmptyRegion(newBase)
                 THEN Outcome("raise", "InvalidScenarioError", OtherPosition, FALSE,
                              base, newBase)
                 ELSE ContainmentTail(base, newBase, offset)

-----------------------------------------------------------------------------
(* Headings and polygonal vector fields *)

\* scenic.core.geometry.normalizeAngle, in degrees
normalizeAngle(a) ==
    IF a > 180 THEN ((a + 179) % Tau) - 179
    ELSE IF a < 0 - 180 THEN ((a + 180) % Tau) - 180
    ELSE a

\* a cell of a PolygonalVectorField: a polygon and its heading, if constant
FieldCell(poly, constant, heading) ==
    [poly |-> poly, constant |-> constant, heading |-> heading]

VectorFieldOf(id, polygonal, cells) == [id |-> id, polygonal |-> polygonal, cells |-> cells]

NoField == VectorFieldOf(0, FALSE, <<>>)

\* heading expressions, by their decorator
Leaf == [tag |-> "Leaf"]

\* field[arg], a MethodDistribution of VectorField.__getitem__; ownPosition
\* says that the arguments are (position,)
GetItem(field, ownPosition) ==
    [tag |-> "MethodDistribution", name |-> "VectorField.__getitem__", arg |-> Leaf,
     field |-> field, ownPosition |-> ownPosition, support |-> Interval(0, 0)]

\* AttributeDistribution(attribute, object)
Attribute(attribute, object) ==
    [tag |-> "AttributeDistribution", name |-> attribute, arg |-> object,
     field |-> NoField, ownPosition |-> FALSE, support |-> Interval(0, 0)]

\* OperatorDistribution(operator, object, (operand,)), with supportInterval(operand)
Operator(operator, object, support) ==
    [tag |-> "OperatorDistribution", name |-> operator, arg |-> object,
     field |-> NoField, ownPosition |-> FALSE, support |-> support]

\* FunctionDistribution(function, (argument,))
Function(function, argument) ==
    [tag |-> "FunctionDistribution", name |-> function, arg |-> argument,
     field |-> NoField, ownPosition |-> FALSE, support |-> Interval(0, 0)]

\* TypecheckedDistribution(dist, valueType)
Typechecked(valueType, d) ==
    [tag |-> "TypecheckedDistribution", name |-> valueType, arg |-> d,
     field |-> NoField, ownPosition |-> FALSE, support |-> Interval(0, 0)]

NoMatch == [field |-> NoField, lower |-> 0, upper |-> 0]

RECURSIVE matchPolygonalField(_)

\* matchPolygonalField(heading, position); the position is the object's own
matchPolygonalField(heading) ==
    IF heading.tag = "FunctionDistribution" /\ heading.name = "normalizeAngle"
    THEN matchPolygonalField(heading.arg)
    ELSE IF heading.tag = "TypecheckedDistribution" /\ heading.name = "float"
    THEN matchPolygonalField(heading.arg)
    ELSE IF heading.tag = "AttributeDistribution" /\ heading.name = "yaw"
            /\ heading.arg.tag = "MethodDistribution"
            /\ heading.arg.name = "VectorField.__getitem__"
            /\ heading.arg.field.polygonal
            /\ heading.arg.ownPosition
    THEN [field |-> heading.arg.field, lower |-> 0, upper |-> 0]
    ELSE IF heading.tag = "OperatorDistribution" /\ heading.name \in {"__add__", "__radd__"}
    THEN LET m == matchPolygonalField(heading.arg)
         IN  IF m.field # NoField /\ heading.support[1] # None /\ heading.support[2] # None
             THEN [field |-> m.field, lower |-> m.lower + heading.support[1],
                   upper |-> m.upper + heading.support[2]]
             ELSE NoMatch
    ELSE NoMatch

\* relativeHeadingRange: <<lower, upper>> in degrees
relativeHeadingRange(baseCell, offsetL, offsetR, targetCell, tOffsetL, tOffsetR) ==
    IF ~baseCell.constant \/ ~targetCell.constant
    THEN <<0 - 180, 180>>
    ELSE LET lower == normalizeAngle(baseCell.heading + offsetL)
             upper == normalizeAngle(baseCell.heading + offsetR)
             points == {lower, upper} \cup (IF upper < lower THEN {180, 0 - 180} ELSE {})
             tLower == normalizeAngle(targetCell.heading + tOffsetL)
             tUpper == normalizeAngle(targetCell.heading + tOffsetR)
             tPoints == {tLower, tUpper} \cup (IF tUpper < tLower THEN {180, 0 - 180} ELSE {})
             rhs == {tp - pt : tp \in tPoints, pt \in points}
         IN  <<SetMin(rhs), SetMax(rhs)>>

\* feasibleRHPolygon: none, or the cells of the union of the kept intersections
\* (polygonUnion of no polygons is the empty polygon)
feasibleRHPolygon(field, offsetL, offsetR, tField, tOffsetL, tOffsetR, lowerBound, upperBound, maxDist) ==
    IF offsetR - offsetL >= Tau \/ tOffsetR - tOffsetL >= Tau
       \/ upperBound - lowerBound >= Tau
    THEN [none |-> TRUE, cells |-> {}]
    ELSE LET kept == {<<i, j>> \in (DOMAIN field.cells) \X (DOMAIN tField.cells) :
                        LET rng == relativeHeadingRange(field.cells[i], offsetL, offsetR,
                                                        tField.cells[j], tOffsetL, tOffsetR)
                        IN  rng[2] >= lowerBound /\ rng[1] <= upperBound}
         IN  [none |-> FALSE,
              cells |-> UNION {field.cells[p[1]].poly \cap Dilate(tField.cells[p[2]].poly, maxDist)
                                  : p \in kept}]

-----------------------------------------------------------------------------
(* Distance bounds *)

\* math.hypot(x, y), rounded up to whole cells
Hypot(x, y) == SetMin({r \in 0 .. (x + y) : r * r >= x * x + y * y})

\* visibilityBound(obj, target): None when a term has no upper bound
visibilityBound(obj, target) ==
    IF obj.visibleDistance[2] = None THEN None
    ELSE IF obj.cameraOffsetX[2] = None \/ obj.cameraOffsetY[2] = None THEN None
    ELSE IF target.radiusSupport[2] = None THEN None
    ELSE obj.visibleDistance[2] + Hypot(obj.cameraOffsetX[2], obj.cameraOffsetY[2])
         + target.radiusSupport[2]

\* the visibility bounds maxDistanceBetween takes the minimum of, in order
VisibilityBounds(scn, o, t) ==
    LET ego == scn.egoObject
        obj == scn.objects[o]
        target == scn.objects[t]
    IN  (IF o = ego /\ target.requireVisible
         THEN <<visibilityBound(scn.objects[ego], target)>> ELSE <<>>)
        \o (IF t = ego /\ obj.requireVisible
            THEN <<visibilityBound(scn.objects[ego], obj)>> ELSE <<>>)
        \o (IF obj.observingEntity = t THEN <<visibilityBound(target, obj)>> ELSE <<>>)
        \o (IF target.observingEntity = o THEN <<visibilityBound(obj, target)>> ELSE <<>>)

\* maxDistanceBetween(scenario, obj, target); min(visDist, None) is a TypeError
maxDistanceBetween(scn, o, t) ==
    LET vis == VisibilityBounds(scn, o, t)
        rels == scn.objects[o].relations
        reqs == {rels[k].upper : k \in {k \in DOMAIN rels :
                     rels[k].kind = "DistanceRelation" /\ rels[k].target = t}}
        visDist == SetMin({Inf} \cup {vis[k] : k \in DOMAIN vis})
        reqDist == SetMin({Inf} \cup reqs)
    IN  IF \E k \in DOMAIN vis : vis[k] = None
        THEN [error |-> "TypeError", value |-> None]
        ELSE [error |-> "", value |-> Min(visDist, reqDist)]

-----------------------------------------------------------------------------
(* checkCyclical *)

\* the dependencies of the node samp itself
unconditionedDeps(graph, samp) == graph.deps[samp]

\* conditionedDeps(samp): the dependencies of the node samp is conditioned to
conditionedDeps(graph, samp) == graph.deps[graph.conditioned[samp]]

RECURSIVE dfs(_, _, _, _)

RECURSIVE dfsChildren(_, _, _, _, _, _)

\* the loop of dfs over deps[i..], with the marks made so far
dfsChildren(graph, A, target, deps, i, state) ==
    IF i > Len(deps)
    THEN [found |-> FALSE, state |-> [state EXCEPT ![target] = 2]]
    ELSE IF deps[i] = A
    THEN [found |-> TRUE, state |-> state]
    ELSE LET r == dfs(graph, A, deps[i], state)
         IN  IF r.found THEN r ELSE dfsChildren(graph, A, target, deps, i + 1, r.state)

\* dfs(target): 0 unvisited, 1 in process, 2 completed
dfs(graph, A, target, state) ==
    IF state[target] = 2 THEN [found |-> FALSE, state |-> state]
    ELSE IF state[target] = 1 THEN [found |-> TRUE, state |-> state]
    ELSE dfsChildren(graph, A, target, conditionedDeps(graph, target), 1,
                     [state EXCEPT ![target] = 1])

\* checkCyclical(A, B), on node identities
checkCyclical(graph, A, B) ==
    dfs(graph, A, B, [n \in DOMAIN graph.deps |-> 0]).found

-----------------------------------------------------------------------------
(* pruneRelativeHeading *)

\* the dictionary fields: the match of every object (NoMatch when absent)
FieldsOf(scn) == [o \in DOMAIN scn.objects |-> matchPolygonalField(scn.objects[o].heading)]

RECURSIVE RHRelations(_, _, _, _, _, _)

\* the loop over obj._relations from the k-th on; poly is newBasePoly, changed
\* says that newBasePoly is no longer basePoly
RHRelations(scn, o, k, poly, changed, verbosity) ==
    LET rels == scn.objects[o].relations
        fields == FieldsOf(scn)
    IN  IF k > Len(rels) THEN [error |-> "", poly |-> poly, changed |-> changed]
        ELSE IF rels[k].kind # "RelativeHeadingRelation"
                \/ fields[rels[k].target].field = NoField
        THEN RHRelations(scn, o, k + 1, poly, changed, verbosity)
        ELSE LET maxDist == maxDistanceBetween(scn, o, rels[k].target)
                 t == fields[rels[k].target]
                 feasible == feasibleRHPolygon(fields[o].field, fields[o].lower,
                                               fields[o].upper, t.field, t.lower, t.upper,
                                               rels[k].lower, rels[k].upper, maxDist.value)
                 \* a TopologicalError retries with feasible.buffer(0.1)
                 pruned == IF rels[k].topologicalError
                           THEN poly \cap Dilate(feasible.cells, 1)
                           ELSE poly \cap feasible.cells
             IN  IF maxDist.error # "" THEN [error |-> maxDist.error, poly |-> poly,
                                             changed |-> changed]
                 ELSE IF maxDist.value = Inf
                 THEN RHRelations(scn, o, k + 1, poly, changed, verbosity)
                 ELSE IF feasible.none
                 THEN RHRelations(scn, o, k + 1, poly, changed, verbosity)
                 ELSE IF verbosity >= 1 /\ Cardinality(poly) = 0
                 THEN [error |-> "ZeroDivisionError", poly |-> poly, changed |-> changed]
                 ELSE RHRelations(scn, o, k + 1, pruned, TRUE, verbosity)

\* one iteration of the loop over fields.items(), for the object o whose
\* current position is position; regions.PolygonalRegion(polygon=...) of an
\* empty polygon raises a ValueError or builds an empty polygonal region, as
\* the scenario's emptyPolygonRaises says
RelativeHeadingStep(scn, o, position, verbosity) ==
    LET m == matchInRegion(position)
        base == m.base
    IN  IF FieldsOf(scn)[o].field = NoField THEN Continue
        ELSE IF base = NoRegion \/ needsSampling(base) THEN Continue
        ELSE IF m.offset.present THEN Continue
        ELSE IF base.kind # "PolygonalRegion" THEN Continue
        ELSE LET r == RHRelations(scn, o, 1, base.cells, FALSE, verbosity)
                 newBase == Region(0, "PolygonalRegion", r.poly, FALSE)
             IN  IF r.error # "" THEN Raise(r.error)
                 ELSE IF ~r.changed THEN Continue
                 ELSE IF r.poly = {} /\ scn.emptyPolygonRaises
                 THEN Outcome("raise", "ValueError", OtherPosition, FALSE, base, newBase)
                 ELSE Outcome("conditionTo", "", uniformPointIn(newBase), FALSE, base,
                              newBase)

-----------------------------------------------------------------------------
(* pruneVisibility *)

\* math.ceil((obj.radius / 2) / target_pitch) + 1 for the pitch
\* PRUNING_PITCH * extent
DilationPasses(radius, extent) == CeilDiv(radius * PruningPitchInv, 2 * extent) + 1

\* bufferHelper(viewRegion) for the object obj
bufferHelper(obj, viewRegion) ==
    LET iterations == DilationPasses(obj.radius, Extent(viewRegion))
    IN  VoxelDilation(viewRegion, iterations)

\* the buffered visible region of an observer in place of newBase
VisibleRegionOnly(scn, obj, base, newBase, viewRegion) ==
    IF ~Is(base, viewRegion) /\ ~needsSampling(viewRegion)
       /\ ~checkCyclical(scn.graph, base.id, viewRegion.id)
    THEN bufferHelper(obj, viewRegion)
    ELSE newBase

\* the restriction of newBase to the buffered visible region of an observer,
\* when the conditions of the pass allow it
RestrictToVisible(scn, obj, base, newBase, viewRegion) ==
    IF ~Is(base, viewRegion) /\ ~needsSampling(viewRegion)
       /\ ~checkCyclical(scn.graph, base.id, viewRegion.id)
    THEN Intersect(newBase, bufferHelper(obj, viewRegion))
    ELSE newBase

\* the end of an iteration of pruneVisibility, from percentagePruned on
VisibilityTail(base, newBase, offset) ==
    LET percentage_pruned == percentagePruned(base, newBase)
        newPos == uniformPointIn(newBase)
    IN  IF percentage_pruned.zeroDivision
        THEN Outcome("raise", "ZeroDivisionError", OtherPosition, TRUE, base, newBase)
        ELSE IF percentage_pruned.defined /\ Negligible(percentage_pruned)
        THEN Outcome("continue", "", OtherPosition, TRUE, base, newBase)
        ELSE Outcome("conditionTo", "",
                     IF offset.present THEN PlusOffset(newPos, offset) ELSE newPos,
                     TRUE, base, newBase)

\* one iteration of pruneVisibility's loop, for the object o whose current
\* position is position
VisibilityStep(scn, o, position) ==
    LET obj == scn.objects[o]
        ego == scn.objects[scn.egoObject]
        m == matchInRegion(position)
        base == m.base
        offset == m.offset
        byEgo == IF obj.requireVisible
                 THEN RestrictToVisible(scn, obj, base, base, ego.visibleRegion)
                 ELSE base
        newBase == IF obj.observingEntity # 0
                   THEN RestrictToVisible(scn, obj, base, byEgo,
                                          scn.objects[obj.observingEntity].visibleRegion)
                   ELSE byEgo
    IN  IF base = NoRegion \/ needsSampling(base) THEN Continue
        ELSE IF IsEmptyRegion(newBase)
        THEN Outcome("raise", "InvalidScenarioError", OtherPosition, FALSE, base, newBase)
        ELSE VisibilityTail(base, newBase, offset)

-----------------------------------------------------------------------------
(* Scenarios *)

RelativeHeadingRelation(target, lower, upper, topologicalError) ==
    [kind |-> "RelativeHeadingRelation", target |-> target, lower |-> lower,
     upper |-> upper, topologicalError |-> topologicalError]

DistanceRelation(target, lower, upper) ==
    [kind |-> "DistanceRelation", target |-> target, lower |-> lower,
     upper |-> upper, topologicalError |-> FALSE]

\* the whole world, a fixed mesh volume, as a visible region
Everywhere == Region(3, "MeshVolumeRegion", Cells, FALSE)

\* an object that no pass can prune
PlainObject ==
    [position |-> OtherPosition, container |-> NoRegion,
     pitch |-> Interval(0, 0), roll |-> Interval(0, 0),
     planarInradius |-> Interval(0, 0), inradius |-> Interval(0, 0),
     radius |-> 0, radiusSupport |-> Interval(0, 0),
     requireVisible |-> FALSE, observingEntity |-> 0, visibleRegion |-> Everywhere,
     visibleDistance |-> Interval(0, None),
     cameraOffsetX |-> Interval(0, 0), cameraOffsetY |-> Interval(0, 0),
     heading |-> Leaf, relations |-> <<>>]

\* the dependency graph in which no node depends on anything
Nodes == 1 .. 3

NoDependencies == [deps |-> [n \in Nodes |-> <<>>], conditioned |-> [n \in Nodes |-> n]]

Scenario(objects, egoObject, graph, emptyPolygonRaises) ==
    [objects |-> objects, egoObject |-> egoObject, graph |-> graph,
     emptyPolygonRaises |-> emptyPolygonRaises]

\* the intervals of cells
Intervals == {a .. b : a \in Cells, b \in Cells} \ {{}}

-----------------------------------------------------------------------------
(* prune *)

Passes == <<"pruneContainment", "pruneRelativeHeading", "pruneVisibility">>

\* a run of prune(scenario, verbosity) that has not started
NewRun(scn) ==
    [pc |-> Passes[1], idx |-> 1, error |-> "", raisedIn |-> "",
     position |-> [o \in DOMAIN scn.objects |-> scn.objects[o].position],
     log |-> <<>>, last |-> [pass |-> "", obj |-> 0, outcome |-> Continue]]

\* the log of a run lists its conditionTo calls: the pass, the object whose
\* position was conditioned, its value before and the value it was conditioned
\* to; last is the iteration made last; a run that raised stays at the object
\* that raised

Terminated(r) == r.pc \in {"returned", "raised"}

\* the runs are made one after the other, in the order of their verbosity
Turn(v) == ~Terminated(run[v]) /\ \A u \in DOMAIN run : u < v => Terminated(run[u])

\* an order of the passes in which visibility comes before relative heading
AfterPassSwapped(pass) ==
    CASE pass = Passes[1] -> Passes[3]
      [] pass = Passes[3] -> Passes[2]
      [] OTHER -> "returned"

\* the pass after pass, or the return of prune
AfterPass(pass) ==
    CASE pass = Passes[1] -> Passes[2]
      [] pass = Passes[2] -> Passes[3]
      [] OTHER -> "returned"

\* currentPropValue(obj, "position") in the run r
currentPropValue(r, o) == r.position[o]

\* the run r after the iteration of its current pass on its current object
\* had the given outcome: obj.position.conditionTo(newPos), an exception that
\* ends prune, or nothing; then the next object, or the next pass
Advance(r, outcome) ==
    LET n == Len(r.position)
        moved == IF r.idx < n THEN [r EXCEPT !.idx = r.idx + 1]
                 ELSE [r EXCEPT !.pc = AfterPass(r.pc), !.idx = 1]
        done == [pass |-> r.pc, obj |-> r.idx, outcome |-> outcome]
    IN  CASE outcome.act = "raise" ->
                [r EXCEPT !.pc = "raised", !.error = outcome.error, !.raisedIn = r.pc,
                          !.last = done]
          [] outcome.act = "conditionTo" ->
                [moved EXCEPT !.position[r.idx] = outcome.newPos, !.last = done,
                              !.log = Append(r.log, [pass |-> r.pc, obj |-> r.idx,
                                                      oldPos |-> r.position[r.idx],
                                                      newPos |-> outcome.newPos])]
          [] OTHER -> [moved EXCEPT !.last = done]

PruneContainment(v) ==
    /\ Turn(v)
    /\ run[v].pc = "pruneContainment"
    /\ run' = [run EXCEPT ![v] = Advance(@, ContainmentStep(scenario.objects[run[v].idx]))]
    /\ UNCHANGED <<scenario, cyc, pct, buf, rh>>

PruneRelativeHeading(v) ==
    /\ Turn(v)
    /\ run[v].pc = "pruneRelativeHeading"
    /\ run' = [run EXCEPT ![v] =
                  Advance(@, RelativeHeadingStep(scenario, run[v].idx,
                                                 currentPropValue(run[v], run[v].idx), v))]
    /\ UNCHANGED <<scenario, cyc, pct, buf, rh>>

PruneVisibility(v) ==
    /\ Turn(v)
    /\ run[v].pc = "pruneVisibility"
    /\ run' = [run EXCEPT ![v] =
                  Advance(@, VisibilityStep(scenario, run[v].idx,
                                            currentPropValue(run[v], run[v].idx)))]
    /\ UNCHANGED <<scenario, cyc, pct, buf, rh>>

Next ==
    \/ \E v \in DOMAIN run : PruneContainment(v)
    \/ \E v \in DOMAIN run : PruneRelativeHeading(v)
    \/ \E v \in DOMAIN run : PruneVisibility(v)

-----------------------------------------------------------------------------
(* The scenarios prune is run on *)

\* the radii and offsets tried
Radii == 0 .. MaxRadius

Bounds == Radii \cup {None}

BaseKinds == {"PolygonalRegion", "MeshVolumeRegion"}

ContainerKinds == {"PolygonalRegion", "MeshVolumeRegion", "MeshSurfaceRegion"}

\* base regions: the whole world, its interior, its left part
BaseCells == {Cells, 1 .. (Width - 2), 0 .. (Width - 3)}

BaseRegions == {Region(1, k, c, FALSE) : k \in BaseKinds, c \in BaseCells}

Offsets == {Offset(a, a) : a \in Bounds} \cup {Offset(0, MaxRadius)}

\* positions: uniform in a base region, with or without an offset
Positions ==
    {PointIn(b, w) : b \in BaseRegions, w \in {FALSE}}
    \cup {PointInPlus(b, FALSE, "__add__", f) : b \in BaseRegions, f \in Offsets}
    \cup {PointIn(Region(1, "PolygonalRegion", Cells, FALSE), TRUE),
          PointIn(Region(1, "PolygonalRegion", Cells, TRUE), FALSE),
          PointInPlus(Region(1, "PolygonalRegion", Cells, FALSE), FALSE, "__radd__",
                      Offset(0, 0)),
          PointInPlus(Region(1, "PolygonalRegion", Cells, FALSE), FALSE, "__sub__",
                      Offset(0, 0)),
          OtherPosition}

Containers ==
    {Region(2, k, c, FALSE) : k \in ContainerKinds, c \in Intervals}
    \cup {NoRegion, Nowhere, Region(2, "PolygonalRegion", Cells, TRUE),
          Region(1, "PolygonalRegion", Cells, FALSE)}

\* <<inradius, planarInradius, pitch>>
Shapes ==
    {<<Interval(r, None), Interval(r, None), Interval(0, 0)>> : r \in Bounds}
    \cup {<<Interval(0, None), Interval(MaxRadius, None), p>> :
              p \in {Interval(0, 0), Interval(0, 1)}}

ContainedObject(position, container, shape) ==
    [PlainObject EXCEPT !.position = position, !.container = container,
                        !.inradius = shape[1], !.planarInradius = shape[2],
                        !.pitch = shape[3]]

\* an object placed in the empty region
Misplaced == [PlainObject EXCEPT !.position = PointIn(Nowhere, FALSE)]

\* one object in its container, next to a plain one
ContainmentScenarios(scn) ==
    \E p \in Positions, c \in Containers, s \in Shapes :
        scn = Scenario(<<ContainedObject(p, c, s), PlainObject>>, 2, NoDependencies, TRUE)

\* objects in their containers before and after a misplaced one
Placed ==
    {ContainedObject(PointIn(b, FALSE), Region(2, "PolygonalRegion", c, FALSE),
                     <<Interval(r, None), Interval(r, None), Interval(0, 0)>>) :
        b \in BaseRegions, c \in Intervals, r \in {0, 1}}

MisplacedScenarios(scn) ==
    \E x \in Placed :
        \E objs \in {<<x, Misplaced>>, <<Misplaced, x>>, <<x, Misplaced, x>>,
                      <<x, PlainObject, Misplaced>>, <<PlainObject, Misplaced, x>>} :
            scn = Scenario(objs, 1, NoDependencies, TRUE)

\* the field of the pruned object: two cells, headings 0 and 90 degrees, the
\* first of them constant or not
RoadField(constant) ==
    VectorFieldOf(1, TRUE, <<FieldCell(0 .. 1, constant, 0),
                             FieldCell(2 .. (Width - 1), TRUE, 90)>>)

\* the fields of the target
TargetFields ==
    {VectorFieldOf(2, TRUE, <<FieldCell(Cells, TRUE, 0)>>),
     VectorFieldOf(2, TRUE, <<FieldCell(0 .. 0, TRUE, 90),
                              FieldCell(1 .. (Width - 1), TRUE, 170)>>)}

Yaw(field, ownPosition) == Attribute("yaw", GetItem(field, ownPosition))

Headings ==
    {Yaw(RoadField(TRUE), TRUE),
     Yaw(RoadField(FALSE), TRUE),
     Operator("__add__", Yaw(RoadField(TRUE), TRUE), Interval(0 - 10, 10)),
     Function("normalizeAngle",
              Typechecked("float", Operator("__radd__", Yaw(RoadField(TRUE), TRUE),
                                            Interval(0 - 5, 5)))),
     Operator("__add__", Yaw(RoadField(TRUE), TRUE), Interval(None, 10)),
     Yaw(RoadField(TRUE), FALSE),
     Yaw(VectorFieldOf(3, FALSE, <<>>), TRUE),
     Leaf}

TargetHeadings ==
    {Yaw(f, TRUE) : f \in TargetFields}
    \cup {Operator("__add__", Yaw(f, TRUE), Interval(0 - 20, 20)) : f \in TargetFields}
    \cup {Leaf}

\* the bounds of the relative heading relations
HeadingBounds == {<<0 - 10, 10>>, <<80, 100>>, <<0 - 180, 180>>, <<0 - 120, 0 - 100>>}

\* the relations of the pruned object to the target, object 2
HeadingRelations ==
    {<<>>}
    \cup {<<RelativeHeadingRelation(2, b[1], b[2], t)>> : b \in HeadingBounds, t \in BOOLEAN}
    \cup {<<RelativeHeadingRelation(2, b[1], b[2], FALSE),
            RelativeHeadingRelation(2, c[1], c[2], FALSE)>> :
              b \in HeadingBounds, c \in HeadingBounds}

\* how the distance to the target is bounded: not at all, by a distance
\* relation, or by the target being visible from the ego (the pruned object)
DistanceBounds ==
    {[relations |-> <<>>, requireVisible |-> FALSE, visibleDistance |-> Interval(0, None),
      camera |-> 0]}
    \cup {[relations |-> <<DistanceRelation(2, 0, d)>>, requireVisible |-> FALSE,
           visibleDistance |-> Interval(0, None), camera |-> 0] : d \in Radii}
    \cup {[relations |-> <<>>, requireVisible |-> TRUE, visibleDistance |-> Interval(0, d),
           camera |-> c] : d \in {0, None}, c \in {0, 1}}

AlignedPositions ==
    {PointIn(Region(1, "PolygonalRegion", c, FALSE), FALSE) : c \in BaseCells}
    \cup {PointIn(Region(1, "MeshVolumeRegion", Cells, FALSE), FALSE),
          PointInPlus(Region(1, "PolygonalRegion", Cells, FALSE), FALSE, "__add__",
                      Offset(0, 0))}

\* the pruned object, object 1, and the target, object 2
HeadingScenario(p, h, th, rels, d, e) ==
    Scenario(<<[PlainObject EXCEPT !.position = p, !.heading = h,
                                   !.relations = rels \o d.relations,
                                   !.visibleDistance = d.visibleDistance,
                                   !.cameraOffsetX = Interval(0, d.camera),
                                   !.cameraOffsetY = Interval(0, d.camera)],
               [PlainObject EXCEPT !.heading = th,
                                   !.requireVisible = d.requireVisible]>>,
             1, NoDependencies, e)

WholePolygon == PointIn(Region(1, "PolygonalRegion", Cells, FALSE), FALSE)

HeadingScenarios(scn) ==
    \/ \E h \in {Yaw(RoadField(TRUE), TRUE),
                  Operator("__add__", Yaw(RoadField(TRUE), TRUE), Interval(0 - 10, 10))},
          th \in TargetHeadings \ {Leaf}, rels \in HeadingRelations,
          d \in DistanceBounds, e \in BOOLEAN :
            scn = HeadingScenario(WholePolygon, h, th, rels, d, e)
    \/ \E p \in AlignedPositions, h \in Headings, th \in TargetHeadings,
          d \in {d \in DistanceBounds : d.relations # <<>>} :
            scn = HeadingScenario(p, h, th, <<RelativeHeadingRelation(2, 80, 100, FALSE)>>,
                                  d, TRUE)

\* dependency graphs over the base region (node 1), the observer's visible
\* region (node 2) and the ego's visible region (node 3)
Graph(deps, conditioned) == [deps |-> deps, conditioned |-> conditioned]

Graphs ==
    {NoDependencies,
     Graph([n \in Nodes |-> IF n = 3 THEN <<1>> ELSE <<>>], [n \in Nodes |-> n]),
     Graph([n \in Nodes |-> IF n = 3 THEN <<2>> ELSE IF n = 2 THEN <<2>> ELSE <<>>],
           [n \in Nodes |-> n]),
     Graph([n \in Nodes |-> IF n = 2 THEN <<3, 1>> ELSE <<>>],
           [n \in Nodes |-> IF n = 3 THEN 2 ELSE n])}

VisiblePositions ==
    {PointIn(b, FALSE) : b \in BaseRegions}
    \cup {PointInPlus(Region(1, k, Cells, FALSE), FALSE, "__add__", Offset(1, 1)) :
             k \in BaseKinds}

VisibleRegions ==
    {Region(3, "MeshVolumeRegion", c, FALSE) : c \in Intervals}
    \cup {Region(3, "MeshVolumeRegion", Cells, TRUE)}

ObserverRegions == {Region(2, "MeshVolumeRegion", c, FALSE) : c \in {Cells, 0 .. 1}}

\* the pruned object, object 1, the ego, object 2, and an observer, object 3
VisibilityScenario(p, c, req, obs, r, ev, ov, g) ==
    Scenario(<<[PlainObject EXCEPT !.position = p, !.container = c,
                                   !.requireVisible = req, !.observingEntity = obs,
                                   !.radius = r, !.radiusSupport = Interval(r, r)],
               [PlainObject EXCEPT !.visibleRegion = ev],
               [PlainObject EXCEPT !.visibleRegion = ov]>>,
             2, g, TRUE)

VisibilityScenarios(scn) ==
    \/ \E p \in VisiblePositions,
          c \in {NoRegion, Region(2, "PolygonalRegion", 0 .. (Width - 2), FALSE)},
          req \in BOOLEAN, r \in Radii, ev \in VisibleRegions :
            scn = VisibilityScenario(p, c, req, 0, r, ev, Everywhere, NoDependencies)
    \/ \E p \in VisiblePositions, req \in BOOLEAN, r \in Radii,
          ev \in VisibleRegions, ov \in ObserverRegions :
            scn = VisibilityScenario(p, NoRegion, req, 3, r, ev, ov, NoDependencies)
    \/ \E obs \in {0, 3}, ev \in VisibleRegions, ov \in ObserverRegions, g \in Graphs :
            scn = VisibilityScenario(PointIn(Region(1, "MeshVolumeRegion", Cells, FALSE), FALSE),
                                     NoRegion, TRUE, obs, 0, ev, ov, g)
    \/ \E r \in Radii :
            scn = VisibilityScenario(PointIn(Region(3, "MeshVolumeRegion", 0 .. 1, FALSE), FALSE),
                                     NoRegion, TRUE, 0, r,
                                     Region(3, "MeshVolumeRegion", 0 .. 1, FALSE), Everywhere,
                                     NoDependencies)

\* an object that all three passes can prune (object 1) and the ego (object 2)
CombinedScenarios(scn) ==
    \E c \in {0 .. (Width - 2), 1 .. (Width - 1)}, b \in HeadingBounds, d \in Radii,
       r \in Radii, th \in TargetHeadings \ {Leaf}, vc \in BaseCells \cup {0 .. 0},
       e \in BOOLEAN, t \in BOOLEAN :
      scn =
      Scenario(<<[PlainObject EXCEPT !.position = WholePolygon,
                                    !.container = Region(2, "PolygonalRegion", c, FALSE),
                                    !.heading = Yaw(RoadField(TRUE), TRUE),
                                    !.relations = <<RelativeHeadingRelation(2, b[1], b[2], t),
                                                    DistanceRelation(2, 0, d)>>,
                                    !.requireVisible = TRUE,
                                    !.radius = r, !.radiusSupport = Interval(r, r)],
                [PlainObject EXCEPT !.heading = th,
                                    !.visibleDistance = Interval(0, Width),
                                    !.visibleRegion = Region(3, "MeshVolumeRegion", vc, FALSE)]>>,
              2, NoDependencies, e)

Scenarios(scn) ==
    \/ ContainmentScenarios(scn)
    \/ MisplacedScenarios(scn)
    \/ HeadingScenarios(scn)
    \/ VisibilityScenarios(scn)
    \/ CombinedScenarios(scn)

Verbosities == {0, 1}

NoCheck == [done |-> TRUE]

Init ==
    /\ Scenarios(scenario)
    /\ run = [v \in Verbosities |-> NewRun(scenario)]
    /\ cyc = NoCheck
    /\ pct = NoCheck
    /\ buf = NoCheck
    /\ rh = NoCheck

Spec == Init /\ [][Next]_vars

-----------------------------------------------------------------------------
(* checkCyclical on the dependency graphs of three nodes *)

\* the most edges of a graph
MaxEdges == 3

RECURSIVE Listed(_, _)

\* the nodes of S as a list, in ascending or in descending order
Listed(S, descending) ==
    IF S = {} THEN <<>>
    ELSE LET x == IF descending THEN SetMax(S) ELSE SetMin(S)
         IN  <<x>> \o Listed(S \ {x}, descending)

\* the graph of the edges E: dependencies(n) lists the nodes n has an edge to
GraphOf(E, descending, conditioned) ==
    Graph([n \in Nodes |-> Listed({m \in Nodes : <<n, m>> \in E}, descending)], conditioned)

\* no node is conditioned, or one node is conditioned to another
Conditionings ==
    {[n \in Nodes |-> IF n = a THEN b ELSE n] : a \in Nodes, b \in Nodes}

\* a scenario that no pass prunes
IdleScenario == Scenario(<<PlainObject>>, 1, NoDependencies, TRUE)

InitCyc ==
    /\ scenario = IdleScenario
    /\ run = [v \in Verbosities |-> NewRun(scenario)]
    /\ \E E \in SUBSET (Nodes \X Nodes), descending \in BOOLEAN,
          conditioned \in Conditionings, A \in Nodes, B \in Nodes :
            /\ Cardinality(E) <= MaxEdges
            /\ cyc = [done |-> FALSE, graph |-> GraphOf(E, descending, conditioned),
                      A |-> A, B |-> B, result |-> FALSE]
    /\ pct = NoCheck
    /\ buf = NoCheck
    /\ rh = NoCheck

\* the call checkCyclical(A, B)
CheckCyclical ==
    /\ ~cyc.done
    /\ cyc' = [cyc EXCEPT !.done = TRUE, !.result = checkCyclical(cyc.graph, cyc.A, cyc.B)]
    /\ UNCHANGED <<scenario, run, pct, buf, rh>>

NextCyc == CheckCyclical

SpecCyc == InitCyc /\ [][NextCyc]_vars

-----------------------------------------------------------------------------
(* The ends of the containment and visibility iterations on regions of
   given sizes *)

\* base regions have the sizes 100000, 200000, ... up to MaxScale times 100000
MaxScale == 2

\* newBase is smaller than base by MaxCut at most, or by about a thousandth
MaxCut == 3

\* a region of the given kind and size
Measured(kind, size) ==
    [id |-> 0, kind |-> kind, cells |-> {}, random |-> FALSE, size |-> size]

\* the kinds of base and newBase: of the same dimensionality, of different
\* dimensionalities, and of none
KindPairs ==
    {<<"PolygonalRegion", "PolygonalRegion">>, <<"MeshVolumeRegion", "MeshVolumeRegion">>,
     <<"MeshVolumeRegion", "VoxelRegion">>, <<"PolygonalRegion", "MeshSurfaceRegion">>,
     <<"PolygonalRegion", "VoxelRegion">>, <<"MeshVolumeRegion", "IntersectionRegion">>}

\* by how much newBase is smaller than a base of k times 100000
Cuts(k) == ((0 - 1) .. MaxCut) \cup {100 * k - 1, 100 * k, 100 * k + 1}

InitPct ==
    /\ scenario = IdleScenario
    /\ run = [v \in Verbosities |-> NewRun(scenario)]
    /\ cyc = NoCheck
    /\ \E k \in 1 .. MaxScale, kinds \in KindPairs, offset \in {NoOffset, Offset(1, 1)} :
          \E d \in Cuts(k) :
            pct = [done |-> FALSE, base |-> Measured(kinds[1], 100000 * k),
                   newBase |-> Measured(kinds[2], 100000 * k - d), offset |-> offset,
                   pass |-> "", outcome |-> Continue]
    /\ buf = NoCheck
    /\ rh = NoCheck

\* pruneContainment from percentagePruned(base, newBase) on
EndContainment ==
    /\ ~pct.done
    /\ pct' = [pct EXCEPT !.done = TRUE, !.pass = "pruneContainment",
                          !.outcome = ContainmentTail(pct.base, pct.newBase, pct.offset)]
    /\ UNCHANGED <<scenario, run, cyc, buf, rh>>

\* pruneVisibility from percentagePruned(base, newBase) on
EndVisibility ==
    /\ ~pct.done
    /\ pct' = [pct EXCEPT !.done = TRUE, !.pass = "pruneVisibility",
                          !.outcome = VisibilityTail(pct.base, pct.newBase, pct.offset)]
    /\ UNCHANGED <<scenario, run, cyc, buf, rh>>

NextPct ==
    \/ EndContainment
    \/ EndVisibility

SpecPct == InitPct /\ [][NextPct]_vars

-----------------------------------------------------------------------------
(* bufferHelper on the visible regions of an ego, for an object required
   visible *)

\* the largest radius of the object
MaxObjectRadius == 9

\* the largest extent of the visible region
MaxExtent == 10

InitBuf ==
    /\ \E r \in 0 .. MaxObjectRadius, x \in 1 .. MaxExtent :
          /\ scenario =
                Scenario(<<[PlainObject EXCEPT !.position = WholePolygon,
                                              !.requireVisible = TRUE, !.radius = r,
                                              !.radiusSupport = Interval(r, r)],
                           [PlainObject EXCEPT
                               !.visibleRegion = Region(3, "MeshVolumeRegion", 0 .. (x - 1),
                                                        FALSE)]>>,
                         2, NoDependencies, TRUE)
          /\ buf = [done |-> FALSE, radius |-> r, extent |-> x, passes |-> 0,
                    dilated |-> NoRegion]
    /\ run = [v \in Verbosities |-> NewRun(scenario)]
    /\ cyc = NoCheck
    /\ pct = NoCheck
    /\ rh = NoCheck

\* the call bufferHelper(ego.visibleRegion) for the object required visible
BufferVisibleRegion ==
    /\ ~buf.done
    /\ buf' = [buf EXCEPT
                  !.done = TRUE,
                  !.passes = DilationPasses(scenario.objects[1].radius,
                                            Extent(scenario.objects[2].visibleRegion)),
                  !.dilated = bufferHelper(scenario.objects[1],
                                           scenario.objects[2].visibleRegion)]
    /\ UNCHANGED <<scenario, run, cyc, pct, rh>>

NextBuf == BufferVisibleRegion

SpecBuf == InitBuf /\ [][NextBuf]_vars

-----------------------------------------------------------------------------
(* relativeHeadingRange and feasibleRHPolygon on fields of one cell *)

\* the largest disturbance of a heading, in degrees
MaxDisturbance == 20

\* the constant headings of the cells
CellHeadings == {0 - 170, 0 - 90, 0, 90, 170}

\* the disturbance intervals <<offsetL, offsetR>>
Disturbances == {<<0 - a, b>> : a \in {0, MaxDisturbance}, b \in {0, MaxDisturbance}}

\* the required bounds <<lowerBound, upperBound>>
RequiredBounds == {<<0 - 10, 30>>, <<80, 100>>, <<0 - 100, 0 - 80>>, <<160, 180>>}

\* a field of one cell, the whole world, of constant heading
OneCellField(id, heading) == VectorFieldOf(id, TRUE, <<FieldCell(Cells, TRUE, heading)>>)

InitRH ==
    /\ scenario = IdleScenario
    /\ run = [v \in Verbosities |-> NewRun(scenario)]
    /\ cyc = NoCheck
    /\ pct = NoCheck
    /\ buf = NoCheck
    /\ \E h \in CellHeadings, t \in CellHeadings, o \in Disturbances, tO \in Disturbances,
          b \in RequiredBounds :
            rh = [done |-> FALSE, field |-> OneCellField(1, h), offsetL |-> o[1],
                  offsetR |-> o[2], tField |-> OneCellField(2, t), tOffsetL |-> tO[1],
                  tOffsetR |-> tO[2], lowerBound |-> b[1], upperBound |-> b[2],
                  range |-> <<0, 0>>, feasible |-> [none |-> TRUE, cells |-> {}]]

\* the call feasibleRHPolygon(field, ..., maxDist) with a maxDist of 0, and
\* the call of relativeHeadingRange it makes for the one pair of cells
FeasibleRHPolygon ==
    /\ ~rh.done
    /\ rh' = [rh EXCEPT
                 !.done = TRUE,
                 !.range = relativeHeadingRange(rh.field.cells[1], rh.offsetL, rh.offsetR,
                                                rh.tField.cells[1], rh.tOffsetL, rh.tOffsetR),
                 !.feasible = feasibleRHPolygon(rh.field, rh.offsetL, rh.offsetR, rh.tField,
                                                rh.tOffsetL, rh.tOffsetR, rh.lowerBound,
                                                rh.upperBound, 0)]
    /\ UNCHANGED <<scenario, run, cyc, pct, buf>>

NextRH == FeasibleRHPolygon

SpecRH == InitRH /\ [][NextRH]_vars

-----------------------------------------------------------------------------
(* What the requirements of a scenario allow *)

\* the horizontal displacements an offset can take
Displacements(offset) ==
    IF ~offset.present THEN {0}
    ELSE IF offset.maxXY = None THEN (0 - Width) .. Width
    ELSE (0 - offset.maxXY) .. offset.maxXY

\* a lower bound that is absent bounds nothing
AtLeast(bound) == IF bound = None THEN 0 ELSE bound

\* the object obj, taken to be the ball of its least inradius, fits in its
\* container when its position is the base point b plus some displacement
CanFit(obj, b) ==
    LET m == matchInRegion(obj.position)
        r == AtLeast(minRadiusOf(obj, m.base))
    IN  \E d \in Displacements(m.offset) :
            \A k \in (b + d - r) .. (b + d + r) : k \in obj.container.cells

\* the relative headings, normalised, that a target cell can have against a
\* base cell under the disturbances of the two objects
RelativeHeadings(baseCell, fm, targetCell, tm) ==
    IF ~baseCell.constant \/ ~targetCell.constant THEN (0 - 180) .. 180
    ELSE {normalizeAngle(targetCell.heading - baseCell.heading + x) :
             x \in (tm.lower - fm.upper) .. (tm.upper - fm.lower)}

\* the relation rel of object o can hold with o at the point b and the
\* target within the distance maxDist
CanFace(scn, o, rel, maxDist, b) ==
    LET fm == FieldsOf(scn)[o]
        tm == FieldsOf(scn)[rel.target]
    IN  \E i \in DOMAIN fm.field.cells, j \in DOMAIN tm.field.cells :
            /\ b \in fm.field.cells[i].poly
            /\ \E q \in tm.field.cells[j].poly : q - b <= maxDist /\ b - q <= maxDist
            /\ \E a \in RelativeHeadings(fm.field.cells[i], fm, tm.field.cells[j], tm) :
                    rel.lower <= a /\ a <= rel.upper

\* the relations of object o that bound its relative heading to an aligned
\* target at a bounded distance
BoundedHeadingRelations(scn, o) ==
    LET rels == scn.objects[o].relations
    IN  {k \in DOMAIN rels :
            /\ rels[k].kind = "RelativeHeadingRelation"
            /\ FieldsOf(scn)[o].field # NoField
            /\ FieldsOf(scn)[rels[k].target].field # NoField
            /\ maxDistanceBetween(scn, o, rels[k].target).error = ""
            /\ maxDistanceBetween(scn, o, rels[k].target).value < Inf}

\* the object obj, of radius obj.radius, reaches into viewRegion when its
\* position is the base point b plus some displacement of offset
CanBeSeen(obj, offset, viewRegion, b) ==
    \E d \in Displacements(offset), q \in viewRegion.cells :
        q - (b + d) <= obj.radius /\ (b + d) - q <= obj.radius

\* the fixed visible regions object o must be visible from
Observers(scn, o) ==
    {vr \in (IF scn.objects[o].requireVisible
             THEN {scn.objects[scn.egoObject].visibleRegion} ELSE {})
            \cup (IF scn.objects[o].observingEntity # 0
                  THEN {scn.objects[scn.objects[o].observingEntity].visibleRegion}
                  ELSE {}) : ~needsSampling(vr)}

\* the requirement of the pass can hold with object o at the base point b
CanHold(scn, pass, o, offset, b) ==
    CASE pass = "pruneContainment" -> CanFit(scn.objects[o], b)
      [] pass = "pruneRelativeHeading" ->
            \A k \in BoundedHeadingRelations(scn, o) :
                CanFace(scn, o, scn.objects[o].relations[k],
                        maxDistanceBetween(scn, o, scn.objects[o].relations[k].target).value, b)
      [] OTHER -> \A vr \in Observers(scn, o) : CanBeSeen(scn.objects[o], offset, vr, b)

-----------------------------------------------------------------------------
(* The claims *)

\* C1: Soundness.  In every run, whenever a pass conditions the position of
\* an object, the region it conditions to contains every point of the region
\* the position was uniform over before at which the requirement of the pass
\* (fits in the container, relative heading bound satisfiable within the
\* distance bound, visible from the observers) can hold.
C1_Soundness ==
    \A v \in DOMAIN run : \A k \in DOMAIN run[v].log :
        LET e == run[v].log[k]
            old == matchInRegion(e.oldPos)
        IN  \A b \in old.base.cells :
                CanHold(scenario, e.pass, e.obj, old.offset, b)
                    => b \in matchInRegion(e.newPos).base.cells

\* the first object of the scenario whose position is a uniform draw from the
\* EmptyRegion, 0 when there is none
FirstMisplaced(scn) ==
    LET misplaced == {o \in DOMAIN scn.objects :
                         /\ scn.objects[o].position.tag = "PointInRegionDistribution"
                         /\ scn.objects[o].position.region.kind = "EmptyRegion"}
    IN  IF misplaced = {} THEN 0 ELSE SetMin(misplaced)

\* C2 as stated: when some object's position is a uniform draw from an empty
\* region, no position is ever conditioned, and a run that ends, ends with
\* the scenario-infeasibility error.
C2_RaisesBeforeAnyConditioning ==
    FirstMisplaced(scenario) # 0 =>
        \A v \in DOMAIN run :
            /\ run[v].log = <<>>
            /\ Terminated(run[v]) => run[v].error = "InvalidScenarioError"

\* C2: when some object's position is a uniform draw from an empty region,
\* prune raises the scenario-infeasibility error in the containment pass, no
\* later than at the first such object; the positions conditioned by then are
\* positions of objects that precede it in the list, conditioned by the
\* containment pass.
C2_RaisesAtFirstMisplaced ==
    FirstMisplaced(scenario) # 0 =>
        \A v \in DOMAIN run :
            /\ run[v].pc \in {"pruneContainment", "raised"}
            /\ run[v].idx <= FirstMisplaced(scenario)
            /\ run[v].pc = "raised" =>
                  /\ run[v].error = "InvalidScenarioError"
                  /\ run[v].raisedIn = "pruneContainment"
            /\ \A k \in DOMAIN run[v].log :
                  /\ run[v].log[k].pass = "pruneContainment"
                  /\ run[v].log[k].obj < FirstMisplaced(scenario)

\* a run raised at an object placed in the empty region after it had
\* conditioned the position of an earlier object
C2_Witness ==
    \E v \in DOMAIN run :
        /\ FirstMisplaced(scenario) # 0
        /\ run[v].pc = "raised"
        /\ run[v].idx = FirstMisplaced(scenario)
        /\ run[v].log # <<>>

\* C4 as stated: in every pass, when the replacement region computed for an
\* object is empty, prune raises the scenario-infeasibility error and does
\* not condition the position to the empty region.
C4_EmptyResultRaises ==
    \A v \in DOMAIN run :
        LET out == run[v].last.outcome
        IN  (out.newBase # NoRegion /\ out.newBase.cells = {}) =>
                out.act = "raise" /\ out.error = "InvalidScenarioError"

\* the cells of C whose whole neighbourhood of radius d lies in C
Interior(C, d) == {x \in C : \A y \in (x - d) .. (x + d) : y \in C}

\* the object obj meets the conditions of the containment result: a fixed
\* non-empty base, a fixed non-empty container with an exact buffer, known
\* bounds on the radius and the offset, and a positive erosion
Erodible(obj) ==
    LET m == matchInRegion(obj.position)
    IN  /\ m.base # NoRegion /\ ~needsSampling(m.base) /\ m.base.cells # {}
        /\ obj.container # NoRegion /\ ~needsSampling(obj.container)
        /\ obj.container.cells # {} /\ HasBuffer(obj.container)
        /\ maxDistanceOf(m.base, m.offset) # None /\ minRadiusOf(obj, m.base) # None
        /\ minRadiusOf(obj, m.base) - maxDistanceOf(m.base, m.offset) > 0

\* B intersect buffer(C, -(minRadius - maxOffset)) for the object obj
ErodedIntersection(obj) ==
    LET m == matchInRegion(obj.position)
    IN  m.base.cells \cap Interior(obj.container.cells,
                                   minRadiusOf(obj, m.base) - maxDistanceOf(m.base, m.offset))

\* C5: Containment pass result.  For an object uniform in a fixed non-empty
\* base B (plus an offset or not) whose fixed non-empty container C has an
\* exact buffer, with minRadius - maxOffset > 0, when the intersection of B
\* with C eroded by minRadius - maxOffset is not empty and is smaller than B,
\* the containment pass conditions the position to a uniform draw from that
\* intersection, plus the offset if there is one.
C5_ContainmentResult ==
    \A v \in DOMAIN run :
        LET l == run[v].last
            obj == scenario.objects[l.obj]
            m == matchInRegion(obj.position)
        IN  (/\ l.pass = "pruneContainment"
             /\ Erodible(obj)
             /\ ErodedIntersection(obj) # {}
             /\ ErodedIntersection(obj) # m.base.cells)
            => /\ l.outcome.act = "conditionTo"
               /\ matchInRegion(l.outcome.newPos).base.cells = ErodedIntersection(obj)
               /\ matchInRegion(l.outcome.newPos).offset = m.offset
               /\ l.outcome.newPos.tag = obj.position.tag
               /\ run[v].position[l.obj] = l.outcome.newPos

\* the containment pass conditioned a position to the base cut by the eroded
\* container, which is smaller than the base cut by the container
C5_Witness ==
    \E v \in DOMAIN run :
        LET l == run[v].last
            obj == scenario.objects[l.obj]
            m == matchInRegion(obj.position)
        IN  /\ l.pass = "pruneContainment"
            /\ Erodible(obj)
            /\ l.outcome.act = "conditionTo"
            /\ matchInRegion(l.outcome.newPos).base.cells = ErodedIntersection(obj)
            /\ ErodedIntersection(obj) # m.base.cells \cap obj.container.cells
            /\ m.base.cells \cap obj.container.cells # m.base.cells

\* the last iteration of the run r was made by the containment or the
\* visibility pass and got a percentagePruned of None
UncomputableRatio(r) ==
    /\ r.last.pass \in {"pruneContainment", "pruneVisibility"}
    /\ r.last.outcome.tail
    /\ ~percentagePruned(r.last.outcome.base, r.last.outcome.newBase).defined

\* C7 as stated: when percentagePruned returns None, the containment and
\* visibility passes do not condition the position of the object, which stays
\* as it was before the pass.
C7_UncomputableRatioSkips ==
    \A v \in DOMAIN run :
        UncomputableRatio(run[v]) =>
            /\ run[v].last.outcome.act = "continue"
            /\ \A k \in DOMAIN run[v].log :
                  ~(run[v].log[k].pass = run[v].last.pass
                    /\ run[v].log[k].obj = run[v].last.obj)

\* C7: when percentagePruned returns None (a dimensionality is undefined or
\* zero, or the two differ), the containment and visibility passes condition
\* the position of the object to a uniform draw from newBase, plus the offset
\* if there is one.
C7_UncomputableRatioConditions ==
    \A v \in DOMAIN run :
        UncomputableRatio(run[v]) =>
            LET l == run[v].last
                old == matchInRegion(run[v].log[Len(run[v].log)].oldPos)
                new == matchInRegion(l.outcome.newPos)
            IN  /\ l.outcome.act = "conditionTo"
                /\ run[v].log # <<>>
                /\ run[v].log[Len(run[v].log)].pass = l.pass
                /\ run[v].log[Len(run[v].log)].obj = l.obj
                /\ run[v].log[Len(run[v].log)].newPos = l.outcome.newPos
                /\ run[v].position[l.obj] = l.outcome.newPos
                /\ new.base = l.outcome.newBase
                /\ new.offset = old.offset
                /\ l.outcome.newPos.tag = run[v].log[Len(run[v].log)].oldPos.tag

\* the containment pass and the visibility pass each conditioned a position
\* on a percentagePruned of None, in some run
C7_Witness ==
    \E v \in DOMAIN run :
        /\ UncomputableRatio(run[v])
        /\ run[v].last.pass = "pruneVisibility"
        /\ run[v].last.outcome.act = "conditionTo"
        /\ run[v].last.outcome.newBase.cells # run[v].last.outcome.base.cells
        /\ \E k \in DOMAIN run[v].log :
              /\ run[v].log[k].pass = "pruneContainment"
              /\ Dimensionality(matchInRegion(run[v].log[k].newPos).base) = 0

\* C8 as stated: Verbosity non-interference.  The runs of prune on one
\* scenario at the verbosity levels 0 and 1, once both have ended, have
\* conditioned the same positions to the same values and ended with the same
\* error or with none.
C8_VerbosityNonInterference ==
    (\A v \in DOMAIN run : Terminated(run[v])) =>
        \A u \in DOMAIN run, v \in DOMAIN run :
            /\ run[u].pc = run[v].pc
            /\ run[u].error = run[v].error
            /\ run[u].position = run[v].position
            /\ run[u].log = run[v].log

\* a term of visibilityBound(obj, target) has no upper bound
UnboundedTerm(obj, target) ==
    \/ obj.visibleDistance[2] = None
    \/ obj.cameraOffsetX[2] = None
    \/ obj.cameraOffsetY[2] = None
    \/ target.radiusSupport[2] = None

\* C9 as stated: when the relative heading pass takes the distance bound of
\* a relation of the ego to a target that must be visible from it, and a term of visibilityBound for the two has no upper bound, then
\* visibilityBound is infinity and maxDistanceBetween does not fail: the pass
\* does not end in the TypeError of a minimum taken with None.
C9_UnboundedVisibilityBound ==
    \A v \in DOMAIN run :
        LET l == run[v].last
            rels == scenario.objects[l.obj].relations
        IN  l.pass = "pruneRelativeHeading" =>
                /\ l.outcome.error # "TypeError"
                /\ \A k \in DOMAIN rels :
                      (/\ rels[k].kind = "RelativeHeadingRelation"
                       /\ l.obj = scenario.egoObject
                       /\ scenario.objects[rels[k].target].requireVisible
                       /\ UnboundedTerm(scenario.objects[l.obj],
                                        scenario.objects[rels[k].target]))
                      => /\ visibilityBound(scenario.objects[l.obj],
                                            scenario.objects[rels[k].target]) = Inf
                         /\ maxDistanceBetween(scenario, l.obj, rels[k].target).error = ""

\* the place of a pass in the order of prune
PassIndex(pass) == CHOOSE i \in DOMAIN Passes : Passes[i] = pass

\* the value of the position of object o after the conditionings of the log
Conditioned(scn, log, o) ==
    LET entries == {k \in DOMAIN log : log[k].obj = o}
    IN  IF entries = {} THEN scn.objects[o].position ELSE log[SetMax(entries)].newPos

\* C10: in any run of prune the positions of the objects are what the
\* conditionTo calls made them; each object's position is conditioned at most
\* once in each pass, hence at most three times; the conditionings are made
\* pass by pass in the order containment, relative heading, visibility, no
\* conditioning of a pass following one of a later pass; and within a pass
\* in the order of the object list.
C10_OncePerPassInOrder ==
    \A v \in DOMAIN run :
        LET log == run[v].log
        IN  /\ \A o \in DOMAIN scenario.objects :
                  /\ run[v].position[o] = Conditioned(scenario, log, o)
                  /\ Cardinality({k \in DOMAIN log : log[k].obj = o}) <= Len(Passes)
            /\ \A j \in DOMAIN log, k \in DOMAIN log :
                  j < k =>
                      \/ PassIndex(log[j].pass) < PassIndex(log[k].pass)
                      \/ /\ log[j].pass = log[k].pass
                         /\ log[j].obj < log[k].obj
            /\ \A k \in DOMAIN log :
                  /\ \/ PassIndex(log[k].pass) < PassIndex(run[v].last.pass)
                     \/ /\ log[k].pass = run[v].last.pass
                        /\ log[k].obj <= run[v].last.obj
                  /\ log[k].oldPos = Conditioned(scenario, SubSeq(log, 1, k - 1), log[k].obj)

\* a run returned after each of the three passes had conditioned the position
\* of the same object
C10_Witness ==
    \E v \in DOMAIN run :
        /\ run[v].pc = "returned"
        /\ Len(run[v].log) = Len(Passes)
        /\ \A k \in DOMAIN run[v].log :
              run[v].log[k].obj = 1 /\ run[v].log[k].pass = Passes[k]

\* the nodes the node n depends on, n resolved to its conditioned value
Children(graph, n) ==
    {graph.deps[graph.conditioned[n]][i] : i \in DOMAIN graph.deps[graph.conditioned[n]]}

RECURSIVE Closure(_, _)

\* the nodes of S and the nodes they depend on, directly or not
Closure(graph, S) ==
    LET T == S \cup UNION {Children(graph, n) : n \in S}
    IN  IF T = S THEN S ELSE Closure(graph, T)

\* the nodes a dependency path of one edge or more leads to from n
Descendants(graph, n) == Closure(graph, Children(graph, n))

\* a cycle of dependencies can be reached from n
CycleReachable(graph, n) ==
    \E m \in {n} \cup Descendants(graph, n) : m \in Descendants(graph, m)

\* C3 as stated: Cycle safety.  checkCyclical(A, B) returns true if and only
\* if there is a dependency path from B back to A, each node resolved to its
\* conditioned value; it returns false when the graph reachable from B has a
\* cycle that does not pass through A.
C3_TrueIffPathBack ==
    cyc.done => (cyc.result <=> cyc.A \in Descendants(cyc.graph, cyc.B))

\* C3: checkCyclical(A, B) returns true if and only if there is a dependency
\* path of at least one edge from B back to A, or a cycle of dependencies can
\* be reached from B, each node resolved to its conditioned value.
C3_TrueIffPathBackOrCycle ==
    cyc.done =>
        (cyc.result <=> (\/ cyc.A \in Descendants(cyc.graph, cyc.B)
                         \/ CycleReachable(cyc.graph, cyc.B)))

\* checkCyclical returned true for a graph with a cycle reachable from B and
\* no path from B to A, through a conditioned node
C3_Witness ==
    /\ cyc.done
    /\ cyc.result
    /\ cyc.A \notin Descendants(cyc.graph, cyc.B)
    /\ CycleReachable(cyc.graph, cyc.B)
    /\ \E n \in {cyc.B} \cup Descendants(cyc.graph, cyc.B) : cyc.graph.conditioned[n] # n

\* the sizes of base and newBase can be compared: they have the same defined
\* dimensionality
Comparable(base, newBase) ==
    /\ Dimensionality(base) # 0
    /\ Dimensionality(base) = Dimensionality(newBase)

\* the position the passes condition to: uniform in newBase, plus the offset
Replacement(newBase, offset) ==
    IF offset.present
    THEN PointInPlus(newBase, FALSE, "__add__", offset)
    ELSE PointIn(newBase, FALSE)

\* C6 as stated: Negligible-reduction rule.  When base and newBase have the
\* same defined dimensionality, a reduction 1 - newBase.size / base.size of at
\* most 0.001 leaves the position unconditioned, and a larger one conditions
\* it to a uniform draw from newBase.
C6_NegligibleBelowThousandth ==
    (pct.done /\ Comparable(pct.base, pct.newBase)) =>
        IF 1000 * (pct.base.size - pct.newBase.size) <= pct.base.size
        THEN pct.outcome.act = "continue"
        ELSE /\ pct.outcome.act = "conditionTo"
             /\ pct.outcome.newPos = Replacement(pct.newBase, pct.offset)

\* C6: in the containment and visibility passes, when base and newBase have
\* the same defined dimensionality, a reduction 1 - newBase.size / base.size
\* of at most 0.00001 (0.001 percent) leaves the position unconditioned, and a
\* larger one conditions it to a uniform draw from newBase, plus the offset if
\* there is one.
C6_NegligibleBelowHundredThousandth ==
    (pct.done /\ Comparable(pct.base, pct.newBase)) =>
        IF 100000 * (pct.base.size - pct.newBase.size) <= pct.base.size
        THEN pct.outcome.act = "continue"
        ELSE /\ pct.outcome.act = "conditionTo"
             /\ pct.outcome.newPos = Replacement(pct.newBase, pct.offset)

\* a pass conditioned the position on a reduction of more than 0.00001 and at
\* most 0.001
C6_Witness ==
    /\ pct.done
    /\ Comparable(pct.base, pct.newBase)
    /\ 100000 * (pct.base.size - pct.newBase.size) > pct.base.size
    /\ 1000 * (pct.base.size - pct.newBase.size) <= pct.base.size
    /\ pct.outcome.act = "conditionTo"

\* C11: Monotonicity.  In every run, whenever a pass conditions the position
\* of an object, the region the position is uniform over afterwards is a
\* subset of the region it was uniform over before the pass, and of the region
\* of the scenario's position, and is not larger in size; this holds for all
\* three passes, the relative heading retry with the buffered feasible
\* polygon included.
C11_Monotonicity ==
    \A v \in DOMAIN run : \A k \in DOMAIN run[v].log :
        LET e == run[v].log[k]
            old == matchInRegion(e.oldPos).base
            new == matchInRegion(e.newPos).base
            first == matchInRegion(scenario.objects[e.obj].position).base
        IN  /\ new.cells \subseteq old.cells
            /\ new.cells \subseteq first.cells
            /\ Size(new) <= Size(old)
            /\ Size(new) <= Size(first)

\* a run in which all three passes made the region of an object smaller, the
\* relative heading pass after a topological error
C11_Witness ==
    \E v \in DOMAIN run :
        /\ \A pass \in {Passes[1], Passes[3]} : \E k \in DOMAIN run[v].log :
              /\ run[v].log[k].pass = pass
              /\ run[v].log[k].obj = 1
              /\ Size(matchInRegion(run[v].log[k].newPos).base)
                     < Size(matchInRegion(run[v].log[k].oldPos).base)
        /\ \E k \in DOMAIN run[v].log :
              /\ run[v].log[k].pass = Passes[2]
              /\ run[v].log[k].obj = 1
              /\ \E j \in DOMAIN scenario.objects[1].relations :
                    scenario.objects[1].relations[j].topologicalError
              /\ matchInRegion(run[v].log[k].newPos).base.cells # {}
              /\ Size(matchInRegion(run[v].log[k].newPos).base)
                     < Size(matchInRegion(run[v].log[k].oldPos).base)

\* C12 as stated: in the visibility pass, for an object required visible to
\* an ego whose visible region is fixed, the guaranteed outward margin of the
\* buffered visible region, the number of dilation passes times the pitch
\* (the hundredth part of the extent), is at least the radius of the object,
\* for every radius and pitch.
C12_MarginAtLeastRadius ==
    buf.done => buf.passes * buf.extent >= PruningPitchInv * buf.radius

\* the angle a in degrees, normalised to (-180, 180]
Normalised(a) == ((a + 179) % Tau) - 179

\* some disturbances within the two intervals give a relative heading of the
\* target cell against the base cell, normalised, within the required bound
RelativeHeadingFeasible ==
    \E d \in rh.offsetL .. rh.offsetR, e \in rh.tOffsetL .. rh.tOffsetR :
        LET a == Normalised((rh.tField.cells[1].heading + e)
                            - (rh.field.cells[1].heading + d))
        IN  rh.lowerBound <= a /\ a <= rh.upperBound

\* C13 as stated: the relative heading cell filter is wraparound-sound.  For
\* cells of constant headings, disturbance intervals narrower than a full
\* turn and a required bound, if some disturbances give a normalised relative
\* heading within the bound, then the interval relativeHeadingRange returns
\* overlaps the bound and feasibleRHPolygon keeps the intersection of the two
\* cells.
C13_WraparoundSound ==
    (/\ rh.done
     /\ rh.offsetR - rh.offsetL < Tau
     /\ rh.tOffsetR - rh.tOffsetL < Tau
     /\ RelativeHeadingFeasible) =>
        /\ rh.range[2] >= rh.lowerBound
        /\ rh.range[1] <= rh.upperBound
        /\ ~rh.feasible.none
        /\ rh.feasible.cells = rh.field.cells[1].poly \cap rh.tField.cells[1].poly

====
